---- MODULE Spec2Model ----
(***************************************************************************)
(* Background job queue of the NoCode AI platform.                         *)
(*                                                                         *)
(* QueueService (services/queue-service.ts) polls the queueJob table,      *)
(* claims one pending job per cycle with a findFirst followed by a         *)
(* separate update, runs the handler of the job's type and writes the      *)
(* outcome.  Every await of processNextJob and of retryJob is a point      *)
(* where other QueueService instances (createContext builds one per        *)
(* request, server/context.ts:35) can read and write the same table.       *)
(*                                                                         *)
(* AIService (services/ai-service.ts) keeps a cache of provider answers by  *)
(* prompt, checked before and swept after every provider call of           *)
(* generateComponent.                                                      *)
(*                                                                         *)
(* useGenerationPolling (hooks/useGenerationPolling.ts) polls the status   *)
(* of a generation from a React effect with an interval timer.             *)
(*                                                                         *)
(* Time is counted in seconds.                                             *)
(***************************************************************************)
EXTENDS Integers, Sequences, FiniteSets, TLC

\* ------------------------------------------------------------------ bounds
NumPollers == 3
MaxJobs == 2
\* jobs in the store while NumPollers instances race for them
MaxRacedJobs == 1
\* instances of the two-instance scenarios
NumPairPollers == 2
MaxTicks == 1
\* clock advances while one instance works alone
MaxSoloTicks == 3
MaxAttemptsBound == 3
MaxPriority == 1
\* AIService: distinct prompts, distinct provider answers, token counts of an
\* answer, generateComponent calls waiting at once, steps of the clock
MaxPrompts == 2
MaxCodes == 2
MaxTokens == 2
MaxCalls == 2
MaxCacheTicks == 3
\* useGenerationPolling: runs of the polling effect
MaxEffects == 3
MaxCallbacks == 2
MaxValueLen == 2
MaxMounts == 2
MaxProjects == 2
MaxSockets == 3

\* ------------------------------------------------------- program constants
\* new Date(Date.now() + 5000): the fixed retry delay, in seconds
RetryDelay == 5
\* job.priority || 0
DefaultPriority == 0
\* startedAt: null, completedAt: null
NullTime == -1
\* priority?: number, left out by the caller
Undefined == -1
\* 3600000 ms, the age limit of a requestCache entry, in seconds
CacheTTL == 3600

NoError == "null"
NoJob == [id |-> 0, type |-> "none", attempts |-> 0, maxAttempts |-> 0]

Pollers == 1..NumPollers
JobIds == 1..MaxJobs
KnownTypes == {"ai_generation", "ai_improvement", "ai_validation"}
JobTypes == KnownTypes \cup {"ai_export"}
Priorities == DefaultPriority..MaxPriority
\* what a caller of addJob passes as priority
PriorityArgs == Priorities \cup {Undefined}
Statuses == {"pending", "processing", "completed", "failed"}
MaxAttemptsValues == 1..MaxAttemptsBound
Prompts == 1..MaxPrompts
Codes == 1..MaxCodes
\* response.usage.input_tokens + response.usage.output_tokens of an answer
TokenCounts == 1..MaxTokens
Calls == 1..MaxCalls
Effects == 1..MaxEffects
\* requestCache.get(prompt) === undefined
NoEntry == [result |-> 0, timestamp |-> NullTime]
\* user: null
NoUser == 0
Mounts == 1..MaxMounts
Projects == 1..MaxProjects
\* the request of a mount has not settled
NoResponse == [kind |-> "pending", ok |-> FALSE, body |-> "none"]
\* fetch rejects, or resolves with a response: its ok flag and what its body
\* holds ({ user: {...} }, { user: null }, or text that is not JSON)
AuthResponses ==
    {[kind |-> "rejected", ok |-> FALSE, body |-> "none"]}
      \cup {[kind |-> "response", ok |-> o, body |-> b] :
               o \in BOOLEAN, b \in {"user", "nouser", "invalid"}}
\* ProjectDashboard.tsx:19 and the options of the select (lines 135-137)
DefaultInterval == 5000
RefreshIntervals == {3000, DefaultInterval, 10000}
NoReturn == [kind |-> "none", prompt |-> 0, code |-> 0, tokensUsed |-> 0]
\* getQueueStats: no call running and no call returned
NoStats == [stage |-> 0, counts |-> <<>>, jobsAtStart |-> 0, processedCount |-> 0]

VARIABLES
    now,            \* the clock read by new Date() / Date.now()
    schemaMax,      \* the maxAttempts a created job receives (not set by addJob)
    jobs,           \* the queueJob table: a sequence, a job's id is its index
    generation,     \* the generation table: status of the record of job j's payload
    processing,     \* QueueService.processing, per instance
    processedJobs,  \* QueueService.processedJobs, per instance
    pc,             \* where each instance's processNextJob stands
    cur,            \* the job object findFirst returned to the instance
    err,            \* the message of the error the handler threw
    retrying,       \* retryJob: the id an instance's call is about to reset (0: none)
    execs,          \* how many times each job's handler was started (capped)
    cause,          \* what made the handler throw: the provider or the job's payload
    timers,         \* the instances whose setInterval timer is live
    instances,      \* the QueueService instances built so far
    ctxCookie,      \* createContext: the cookies of the last request
    ctxUser,        \* createContext: the user of the context it returned
    requestCache,   \* AIService.requestCache: prompt -> { result, timestamp }
    aiPending,      \* generateComponent calls waiting for the provider
    aiReturn,       \* what the last generateComponent call returned or threw
    statsCall,      \* getQueueStats: the counts a running call has read so far
    failedResult,   \* getFailedJobs: the ids of the rows the last call returned
    hookMounted,    \* useGenerationPolling: the component using the hook is mounted
    hookEnabled,    \* the enabled option of the current render
    hookActive,     \* the effect run whose cleanup has not been called (0: none)
    hookTimers,     \* the effect runs whose setInterval timer is live
    hookCaptured,   \* per effect run, the status its closure captured
    hookPending,    \* the effect runs with a status query in flight
    hookStatus,     \* the status state of the hook
    hookServer,     \* the status of the generation the server reports
    hookCallbacks,  \* the calls of onComplete / onError("Generation failed") so far
    authMounts,     \* AuthWrapper: the mounts of the component so far
    authMounted,    \* the latest mount is still mounted
    authChecking,   \* isChecking of the mounted component
    authResponse,   \* per mount, how its /api/auth/me request settled
    authRedirects,  \* the mounts whose check called router.push("/auth/login")
    dashMounted,    \* ProjectDashboard: the component is mounted
    dashProject,    \* its projectId prop
    dashAutoRefresh,  \* its autoRefresh state
    dashInterval,   \* its refreshInterval state
    dashTimers,     \* the live setInterval timers of the auto-refresh effect
    dashSockets     \* the WebSockets opened and not closed

vars == <<now, schemaMax, jobs, generation, processing, processedJobs, pc, cur,
          err, retrying, execs, cause, timers, instances, ctxCookie, ctxUser, requestCache, aiPending, aiReturn,
          statsCall, failedResult, hookMounted, hookEnabled, hookActive, hookTimers,
          hookCaptured, hookPending, hookStatus, hookServer, hookCallbacks,
          authMounts, authMounted, authChecking, authResponse, authRedirects,
          dashMounted, dashProject, dashAutoRefresh, dashInterval, dashTimers, dashSockets>>

pollerVars == <<processing, processedJobs, pc, cur, err, cause>>
retryVars == <<retrying>>
contextVars == <<timers, instances, ctxCookie, ctxUser>>
cacheVars == <<requestCache, aiPending, aiReturn>>
queueVars == <<schemaMax, jobs, generation, pollerVars, retryVars, execs>>
queryVars == <<statsCall, failedResult>>
authVars == <<authMounts, authMounted, authChecking, authResponse, authRedirects>>
dashVars == <<dashMounted, dashProject, dashAutoRefresh, dashInterval, dashTimers, dashSockets>>
pageVars == <<authVars, dashVars>>
hookVars == <<hookMounted, hookEnabled, hookActive, hookTimers, hookCaptured, hookPending,
              hookStatus, hookServer, hookCallbacks>>
uiVars == <<hookVars, pageVars>>

Ids == DOMAIN jobs

\* ------------------------------------------------------------ store queries
\* where: { status: "pending", scheduledFor: { lte: new Date() } }
Eligible(j) == jobs[j].status = "pending" /\ jobs[j].scheduledFor <= now

\* orderBy: [{ priority: "desc" }, { createdAt: "asc" }]: j sorts before k
SortsBefore(j, k) ==
    \/ jobs[j].priority > jobs[k].priority
    \/ jobs[j].priority = jobs[k].priority /\ jobs[j].createdAt <= jobs[k].createdAt

\* findFirst: a first row of the ordered result (rows that tie come in any order)
IsFirst(j) == j \in Ids /\ Eligible(j) /\ \A k \in Ids : Eligible(k) => SortsBefore(j, k)

\* ------------------------------------------------------------------- addJob
\* a priority that takes the argument as it comes
StoredPriorityAsPassed(priority) == priority

\* line 37: job.priority || 0
StoredPriority(priority) ==
    IF priority = Undefined \/ priority = 0 THEN DefaultPriority ELSE priority

\* the payload of job j names the generation record j
NewJob(type, priority) ==
    [type |-> type, payload |-> Len(jobs) + 1, priority |-> StoredPriority(priority),
     status |-> "pending", attempts |-> 0,
     maxAttempts |-> schemaMax, scheduledFor |-> now, createdAt |-> now,
     startedAt |-> NullTime, completedAt |-> NullTime, error |-> NoError]

AddJob(type, priority) ==
    /\ Len(jobs) < MaxJobs
    /\ jobs' = Append(jobs, NewJob(type, priority))
    /\ UNCHANGED <<now, schemaMax, generation, pollerVars, retryVars, execs,
                   contextVars, cacheVars, queryVars, uiVars>>

\* ------------------------------------------------------------ createContext
\* server/context.ts:35 builds a QueueService for the request it serves, and the
\* constructor starts the instance's polling timer (lines 27-30, 47-51).
\* Instances are numbered in the order they are built.
\* The Cookie header is a sequence of cookies, each a name and the characters
\* after the first "=" of the pair; a session token is a sequence of characters.
CookieChars == {"a", "b", "="}
CookieValues == UNION {[1..n -> CookieChars] : n \in 0..MaxValueLen}
CookieNames == {"auth_token", "theme"}
CookieHeaders ==
    {<<>>} \cup {<<[name |-> n, value |-> v]>> : n \in CookieNames, v \in CookieValues}

\* prisma.session with its user (lines 20-23): session "a" of user 1 expires at
\* the first step of the clock, session "b" of user 2 expired at time 0
Sessions ==
    { [token |-> <<"a">>, user |-> 1, expiresAt |-> RetryDelay],
      [token |-> <<"b">>, user |-> 2, expiresAt |-> 0] }

\* line 12, c.trim().split("="): the pieces of name=value between the "=" signs;
\* Object.fromEntries (line 11) reads pieces 0 and 1, so the value of a cookie
\* is the part of it before its first "="
RECURSIVE FirstPiece(_)
FirstPiece(v) ==
    IF v = <<>> \/ Head(v) = "=" THEN <<>> ELSE <<Head(v)>> \o FirstPiece(Tail(v))

\* lines 10-16: cookies["auth_token"], undefined when no cookie has the name
AuthToken(header) ==
    IF \E i \in DOMAIN header : header[i].name = "auth_token"
    THEN FirstPiece(header[CHOOSE i \in DOMAIN header :
                               /\ header[i].name = "auth_token"
                               /\ \A k \in DOMAIN header :
                                     header[k].name = "auth_token" => k <= i].value)
    ELSE <<>>

\* line 24: the session is still valid
NotExpired(s) == s.expiresAt > now

\* lines 18-28: the user of the session found by the token, null without a
\* token (undefined and "" are falsy), without a session or with an expired one
SessionUser(header) ==
    LET token == AuthToken(header)
        found == {s \in Sessions : s.token = token}
    IN  IF token # <<>> /\ \E s \in found : NotExpired(s)
        THEN (CHOOSE s \in found : NotExpired(s)).user
        ELSE NoUser

\* lines 7-37: createContext for a request with the given Cookie header
CreateContextFor(p, header) ==
    /\ p = Cardinality(instances) + 1
    /\ instances' = instances \cup {p}
    /\ timers' = timers \cup {p}
    /\ ctxCookie' = header
    /\ ctxUser' = SessionUser(header)
    /\ UNCHANGED <<now, queueVars, cacheVars, queryVars, uiVars>>

\* a request without cookies
CreateContext(p) == CreateContextFor(p, <<>>)

\* ------------------------------------------------------------ processNextJob
\* a guard that lets every tick through
InFlightNever(p) == FALSE

\* line 54: if (this.processing) return
InFlight(p) == processing[p]

\* the timer of the instance fires and the guard lets the tick through
StartsCycle(p) == p \in timers /\ ~InFlight(p)

\* the timer fires while the guard holds: the tick returns at line 55
TickSkip(p) ==
    /\ p \in timers
    /\ pc[p] # "crashed"
    /\ InFlight(p)
    /\ UNCHANGED vars

\* lines 53-79: the guard on the in-flight flag, findFirst, the processedJobs check
FindNone(p) ==
    /\ StartsCycle(p)
    /\ ~\E j \in Ids : Eligible(j)
    /\ UNCHANGED vars

FindProcessed(p) ==
    /\ StartsCycle(p)
    /\ \E j \in Ids : IsFirst(j) /\ j \in processedJobs[p]
    /\ UNCHANGED vars

FindJob(p) ==
    /\ StartsCycle(p)
    /\ \E j \in Ids :
        /\ IsFirst(j)
        /\ j \notin processedJobs[p]
        /\ cur' = [cur EXCEPT ![p] = [id |-> j, type |-> jobs[j].type,
                                      attempts |-> jobs[j].attempts,
                                      maxAttempts |-> jobs[j].maxAttempts]]
    /\ processing' = [processing EXCEPT ![p] = TRUE]
    /\ pc' = [pc EXCEPT ![p] = "claim"]
    /\ UNCHANGED <<now, schemaMax, jobs, generation, processedJobs, err, retryVars, execs, cause,
                   contextVars, cacheVars, queryVars, uiVars>>

\* lines 81-91: the update to processing (where: { id }) and processedJobs.add
ClaimData(j) == [jobs[j] EXCEPT !.status = "processing", !.startedAt = now]

ClaimJob(p) ==
    /\ pc[p] = "claim"
    /\ jobs' = [jobs EXCEPT ![cur[p].id] = ClaimData(cur[p].id)]
    /\ processedJobs' = [processedJobs EXCEPT ![p] = @ \cup {cur[p].id}]
    /\ pc' = [pc EXCEPT ![p] = "exec"]
    /\ UNCHANGED <<now, schemaMax, generation, processing, cur, err, retryVars, execs, cause,
                   contextVars, cacheVars, queryVars, uiVars>>

\* ---------------------------------------------------------------- executeJob
\* error instanceof Error ? error.message : "Unknown error".  generateComponent
\* rethrows every failure as Error("Failed to generate component"); improveCode and
\* validateComponent let the provider's Error through.
ErrorMessage(type, outcome) ==
    IF type = "ai_generation" THEN "Failed to generate component"
    ELSE IF outcome = "invalid" THEN "invalid payload"
    ELSE "provider error"

\* handleAIGeneration: the generation.update of the success and of the catch branch
GenerationData(g, outcome) ==
    IF outcome = "ok" THEN [status |-> "completed", result |-> "code"]
    ELSE [g EXCEPT !.status = "failed"]

\* the switch of executeJob: a recognised type runs its handler, which returns,
\* throws because the provider or the store failed ("throw") or throws because the
\* payload cannot be worked on ("invalid"); the default branch logs and returns
HandlerOutcomes(type) == IF type \in KnownTypes THEN {"ok", "throw", "invalid"} ELSE {"ok"}

ErrorCause(outcome) ==
    IF outcome = "ok" THEN "none"
    ELSE IF outcome = "invalid" THEN "permanent"
    ELSE "transient"

ExecuteJob(p, outcome) ==
    /\ pc[p] = "exec"
    /\ outcome \in HandlerOutcomes(cur[p].type)
    /\ generation' = IF cur[p].type = "ai_generation"
                      THEN [generation EXCEPT ![cur[p].id] = GenerationData(@, outcome)]
                      ELSE generation
    /\ pc' = [pc EXCEPT ![p] = IF outcome = "ok" THEN "complete" ELSE "fail"]
    /\ err' = [err EXCEPT ![p] = IF outcome = "ok" THEN NoError
                                  ELSE ErrorMessage(cur[p].type, outcome)]
    /\ cause' = [cause EXCEPT ![p] = ErrorCause(outcome)]
    /\ UNCHANGED <<now, schemaMax, jobs, processing, processedJobs, cur, retryVars,
                   contextVars, cacheVars, queryVars, uiVars>>

\* ------------------------------------------------------------ outcome writes
\* lines 97-104: the update applied to a stored row
ApplyCompleted(row) == [row EXCEPT !.status = "completed", !.completedAt = now]

CompletedData(j) == ApplyCompleted(jobs[j])

\* a retry decision that allows one attempt too many
ShouldRetryOffByOne(job) == job.attempts + 1 <= job.maxAttempts

\* line 118: if (newAttempts < job.maxAttempts), on the job object findFirst returned
ShouldRetry(job) == job.attempts + 1 < job.maxAttempts

\* line 126: the delay before attempt number n + 1, after n failed attempts
BackoffDelay(n) == RetryDelay

\* a retry update that counts on the stored row: attempts: { increment: 1 }
ApplyRetryIncrement(row, job, message) ==
    [row EXCEPT !.status = "pending", !.attempts = row.attempts + 1,
                !.error = message, !.scheduledFor = now + BackoffDelay(row.attempts + 1)]

\* lines 120-128: the update applied to a stored row; job is the object findFirst
\* returned
ApplyRetry(row, job, message) ==
    [row EXCEPT !.status = "pending", !.attempts = job.attempts + 1,
                !.error = message, !.scheduledFor = now + BackoffDelay(job.attempts + 1)]

RetryData(j, job, message) == ApplyRetry(jobs[j], job, message)

\* lines 131-139: the update applied to a stored row
ApplyFailed(row, job, message) ==
    [row EXCEPT !.status = "failed", !.attempts = job.attempts + 1,
                !.error = message, !.completedAt = now]

FailedData(j, job, message) == ApplyFailed(jobs[j], job, message)

\* an end of the cycle that leaves the flag up
ReleaseKeepsFlag(p) ==
    /\ processing' = processing
    /\ pc' = [pc EXCEPT ![p] = "idle"]
    /\ cur' = [cur EXCEPT ![p] = NoJob]
    /\ err' = [err EXCEPT ![p] = NoError]
    /\ cause' = [cause EXCEPT ![p] = "none"]

\* finally { this.processing = false }
Release(p) ==
    /\ processing' = [processing EXCEPT ![p] = FALSE]
    /\ pc' = [pc EXCEPT ![p] = "idle"]
    /\ cur' = [cur EXCEPT ![p] = NoJob]
    /\ err' = [err EXCEPT ![p] = NoError]
    /\ cause' = [cause EXCEPT ![p] = "none"]

CompleteJob(p) ==
    /\ pc[p] = "complete"
    /\ jobs' = [jobs EXCEPT ![cur[p].id] = CompletedData(cur[p].id)]
    /\ Release(p)
    /\ UNCHANGED <<now, schemaMax, generation, processedJobs, retryVars, execs,
                   contextVars, cacheVars, queryVars, uiVars>>

FailJob(p) ==
    /\ pc[p] = "fail"
    /\ jobs' = [jobs EXCEPT ![cur[p].id] =
                    IF ShouldRetry(cur[p]) THEN RetryData(cur[p].id, cur[p], err[p])
                    ELSE FailedData(cur[p].id, cur[p], err[p])]
    /\ Release(p)
    /\ UNCHANGED <<now, schemaMax, generation, processedJobs, retryVars, execs,
                   contextVars, cacheVars, queryVars, uiVars>>

\* ------------------------------------------------------------------ retryJob
\* lines 280-286: findUnique and the check; a throw leaves everything as it was
RetryJobRejects(id) == IF id \in Ids THEN jobs[id].status # "failed" ELSE TRUE

RetryJobThrow(p, id) ==
    /\ p \in instances
    /\ retrying[p] = 0
    /\ RetryJobRejects(id)
    /\ UNCHANGED vars

RetryJobFind(p, id) ==
    /\ p \in instances
    /\ retrying[p] = 0
    /\ ~RetryJobRejects(id)
    /\ retrying' = [retrying EXCEPT ![p] = id]
    /\ UNCHANGED <<now, schemaMax, jobs, generation, pollerVars, execs,
                   contextVars, cacheVars, queryVars, uiVars>>

\* a reset that writes the whole row anew and loses the payload
ResetDataDropsPayload(j) ==
    [jobs[j] EXCEPT !.status = "pending", !.attempts = 0, !.error = NoError,
                    !.scheduledFor = now, !.startedAt = NullTime,
                    !.completedAt = NullTime, !.payload = 0]

\* a reset that leaves the completion time of the failed run in place
ResetDataKeepsCompletedAt(j) ==
    [jobs[j] EXCEPT !.status = "pending", !.attempts = 0, !.error = NoError,
                    !.scheduledFor = now, !.startedAt = NullTime]

\* lines 289-299
ResetData(j) ==
    [jobs[j] EXCEPT !.status = "pending", !.attempts = 0, !.error = NoError,
                    !.scheduledFor = now, !.startedAt = NullTime,
                    !.completedAt = NullTime]

\* the update and, line 302, processedJobs.delete
RetryJobWrite(p) ==
    /\ retrying[p] # 0
    /\ jobs' = [jobs EXCEPT ![retrying[p]] = ResetData(retrying[p])]
    /\ processedJobs' = [processedJobs EXCEPT ![p] = @ \ {retrying[p]}]
    /\ retrying' = [retrying EXCEPT ![p] = 0]
    /\ UNCHANGED <<now, schemaMax, generation, processing, pc, cur, err, execs, cause,
                   contextVars, cacheVars, queryVars, uiVars>>

\* ----------------------------------------------- AIService.generateComponent
\* line 28: cached && Date.now() - cached.timestamp <= 3600000
CacheHitInclusive(q) ==
    requestCache[q] # NoEntry /\ now - requestCache[q].timestamp <= CacheTTL

\* line 28: cached && Date.now() - cached.timestamp < 3600000
CacheHit(q) ==
    requestCache[q] # NoEntry /\ now - requestCache[q].timestamp < CacheTTL

\* a hit that reports the tokens of the answer it stored
HitValueCharged(q) ==
    [kind |-> "value", prompt |-> q, code |-> requestCache[q].result, tokensUsed |-> 1]

\* line 30: return { code: cached.result, tokensUsed: 0 }
HitValue(q) ==
    [kind |-> "value", prompt |-> q, code |-> requestCache[q].result, tokensUsed |-> 0]

GenerateHit(q) ==
    /\ CacheHit(q)
    /\ aiReturn' = HitValue(q)
    /\ UNCHANGED <<now, queueVars, contextVars, requestCache, aiPending,
                   queryVars, uiVars>>

\* lines 33-59: no valid entry, the call awaits client.messages.create
GenerateMiss(q) ==
    /\ ~CacheHit(q)
    /\ \E c \in Calls :
        /\ \A k \in aiPending : k.call # c
        /\ \A d \in Calls : d < c => \E k \in aiPending : k.call = d
        /\ aiPending' = aiPending \cup {[call |-> c, prompt |-> q]}
    /\ UNCHANGED <<now, queueVars, contextVars, requestCache, aiReturn,
                   queryVars, uiVars>>

\* line 74: Date.now() - value.timestamp > 3600000
Expired(entry) == now - entry.timestamp > CacheTTL

\* lines 72-77: the loop over the entries, run after every insert
Sweep(cache) ==
    [q \in Prompts |-> IF cache[q] # NoEntry /\ Expired(cache[q]) THEN NoEntry
                       ELSE cache[q]]

\* lines 61-83: the provider answered with text; insert, sweep, return
ProviderReturns(k, text, tokens) ==
    /\ k \in aiPending
    /\ requestCache' = Sweep([requestCache EXCEPT ![k.prompt] =
                                 [result |-> text, timestamp |-> now]])
    /\ aiReturn' = [kind |-> "value", prompt |-> k.prompt, code |-> text,
                    tokensUsed |-> tokens]
    /\ aiPending' = aiPending \ {k}
    /\ UNCHANGED <<now, queueVars, contextVars,
                   queryVars, uiVars>>

\* lines 84-87: the call or the content check threw; every failure is rethrown
\* as Error("Failed to generate component")
ProviderFails(k) ==
    /\ k \in aiPending
    /\ aiReturn' = [kind |-> "threw", prompt |-> k.prompt, code |-> 0, tokensUsed |-> 0]
    /\ aiPending' = aiPending \ {k}
    /\ UNCHANGED <<now, queueVars, contextVars, requestCache,
                   queryVars, uiVars>>

\* lines 221-223
ClearCache ==
    /\ requestCache' = [q \in Prompts |-> NoEntry]
    /\ UNCHANGED <<now, queueVars, contextVars, aiPending, aiReturn,
                   queryVars, uiVars>>

\* the clock, observed at the ages that matter to an entry: half the limit, the
\* limit itself and beyond
CacheTick ==
    /\ now < MaxCacheTicks * (CacheTTL \div 2)
    /\ now' = now + CacheTTL \div 2
    /\ UNCHANGED <<queueVars, contextVars, cacheVars, queryVars, uiVars>>

NextCache ==
    \/ \E q \in Prompts : GenerateHit(q)
    \/ \E q \in Prompts : GenerateMiss(q)
    \/ \E k \in aiPending, text \in Codes, tokens \in TokenCounts :
            ProviderReturns(k, text, tokens)
    \/ \E k \in aiPending : ProviderFails(k)
    \/ ClearCache
    \/ CacheTick

\* -------------------------------------------------------------------- cleanup
\* lines 305-309: clearInterval(this.pollInterval); a cycle in flight goes on
Cleanup(p) ==
    /\ p \in instances
    /\ timers' = timers \ {p}
    /\ UNCHANGED <<now, queueVars, instances, ctxCookie, ctxUser, cacheVars, queryVars, uiVars>>

\* -------------------------------------------------------------- getQueueStats
\* lines 242-256: the order of the four count queries
StatusOrder == <<"pending", "processing", "completed", "failed">>

\* prisma.queueJob.count({ where: { status } })
CountStatus(st) == Cardinality({j \in Ids : jobs[j].status = st})

\* One count query of a call of instance p; the first starts the call, the fourth
\* ends it and the call returns the four counts with processedJobs.size.
StatsCount(p) ==
    /\ p \in instances
    /\ LET call == IF statsCall.stage \in {0, 4}
                   THEN [NoStats EXCEPT !.jobsAtStart = Len(jobs)]
                   ELSE statsCall
       IN statsCall' =
            [stage |-> call.stage + 1,
             counts |-> Append(call.counts, CountStatus(StatusOrder[call.stage + 1])),
             jobsAtStart |-> call.jobsAtStart,
             processedCount |-> IF call.stage = 3 THEN Cardinality(processedJobs[p])
                                ELSE 0]
    /\ UNCHANGED <<now, queueVars, contextVars, cacheVars, failedResult, uiVars>>

\* -------------------------------------------------------------- getFailedJobs
\* an ordering that puts the oldest failure first
FailedOrderAscending(a, b) == a.completedAt <= b.completedAt

\* orderBy: { completedAt: "desc" }: row a may come before row b
FailedOrder(a, b) == a.completedAt >= b.completedAt

FailedIds == {j \in Ids : jobs[j].status = "failed"}

\* findMany: every failed row once, in an order the orderBy allows
IsFailedListing(rows) ==
    /\ \A j \in FailedIds : \E i \in DOMAIN rows : rows[i] = j
    /\ \A i, k \in DOMAIN rows : i < k => FailedOrder(jobs[rows[i]], jobs[rows[k]])

GetFailedJobs(p) ==
    /\ p \in instances
    /\ \E rows \in [1..Cardinality(FailedIds) -> FailedIds] :
        /\ IsFailedListing(rows)
        /\ failedResult' = rows
    /\ UNCHANGED <<now, queueVars, contextVars, cacheVars, statsCall, uiVars>>

\* ------------------------------------------------------ useGenerationPolling
\* the runs of the effect so far
UsedEffects == {e \in Effects : hookCaptured[e] # "none"}

\* lines 33-87, the body of the effect for a render with the option enabled set
\* to en: nothing when disabled (line 34); otherwise run e defines checkStatus
\* with the status of this render in its closure, sets the interval (line 74)
\* and makes the initial check (line 81)
RunEffect(en) ==
    IF en
    THEN \E e \in Effects :
            /\ e = Cardinality(UsedEffects) + 1
            /\ hookCaptured' = [hookCaptured EXCEPT ![e] = hookStatus]
            /\ hookTimers' = hookTimers \cup {e}
            /\ hookPending' = hookPending \cup {e}
            /\ hookActive' = e
    ELSE /\ hookActive' = 0
         /\ UNCHANGED <<hookCaptured, hookTimers, hookPending>>

HookMount(en) ==
    /\ ~hookMounted
    /\ UsedEffects = {}
    /\ hookMounted' = TRUE
    /\ hookEnabled' = en
    /\ RunEffect(en)
    /\ UNCHANGED <<now, queueVars, contextVars, cacheVars, queryVars, pageVars, hookStatus, hookServer,
                   hookCallbacks>>

\* enabled, generationId or interval changed: React calls the cleanup of the last
\* run (lines 84-86: it only logs) and runs the effect again
HookDepsChange(en) ==
    /\ hookMounted
    /\ hookEnabled' = en
    /\ RunEffect(en)
    /\ UNCHANGED <<now, queueVars, contextVars, cacheVars, queryVars, pageVars, hookMounted,
                   hookStatus, hookServer, hookCallbacks>>

\* the component unmounts: React calls the cleanup of the last run
HookUnmount ==
    /\ hookMounted
    /\ hookMounted' = FALSE
    /\ hookActive' = 0
    /\ UNCHANGED <<now, queueVars, contextVars, cacheVars, queryVars, pageVars, hookEnabled,
                   hookTimers, hookCaptured, hookPending, hookStatus, hookServer,
                   hookCallbacks>>

\* lines 74-78: the interval of run e fires; the status it tests is the one in
\* its closure
HookTimerFires(e) ==
    /\ e \in hookTimers
    /\ hookCaptured[e] \notin {"completed", "failed"}
    /\ hookPending' = hookPending \cup {e}
    /\ UNCHANGED <<now, queueVars, contextVars, cacheVars, queryVars, pageVars, hookMounted,
                   hookEnabled, hookActive, hookTimers, hookCaptured, hookStatus,
                   hookServer, hookCallbacks>>

\* lines 54-64: checkStatus calls onComplete for a completed generation and
\* onError for a failed one, whatever it has called before
CallsBack(found, st) == found /\ st \in {"completed", "failed"}

\* lines 38-64: the query of run e returns; when the generation is among the
\* rows, setStatus (a no-op on an unmounted component) and the callback of a
\* completed or failed generation
HookQueryReturns(e, found) ==
    /\ e \in hookPending
    /\ hookPending' = hookPending \ {e}
    /\ hookStatus' = IF found /\ hookMounted THEN hookServer ELSE hookStatus
    /\ IF CallsBack(found, hookServer)
       THEN /\ hookCallbacks < MaxCallbacks
            /\ hookCallbacks' = hookCallbacks + 1
       ELSE UNCHANGED hookCallbacks
    /\ UNCHANGED <<now, queueVars, contextVars, cacheVars, queryVars, pageVars, hookMounted,
                   hookEnabled, hookActive, hookTimers, hookCaptured, hookServer>>

\* the generation moves on at the server
ServerAdvance(st) ==
    /\ \/ hookServer = "pending" /\ st = "processing"
       \/ hookServer \in {"pending", "processing"} /\ st \in {"completed", "failed"}
    /\ hookServer' = st
    /\ UNCHANGED <<now, queueVars, contextVars, cacheVars, queryVars, pageVars, hookMounted,
                   hookEnabled, hookActive, hookTimers, hookCaptured, hookPending,
                   hookStatus, hookCallbacks>>

NextHook ==
    \/ \E en \in BOOLEAN : HookMount(en)
    \/ \E en \in BOOLEAN : HookDepsChange(en)
    \/ HookUnmount
    \/ \E e \in Effects : HookTimerFires(e)
    \/ \E e \in Effects, found \in BOOLEAN : HookQueryReturns(e, found)
    \/ \E st \in Statuses : ServerAdvance(st)

\* ----------------------------------------------------------------- AuthWrapper
\* a check that stops at res.ok
AuthorizedAnyOk(res) == res.kind = "response" /\ res.ok

\* lines 13-23: the try block of verifySession reaches setIsChecking(false)
Authorized(res) == res.kind = "response" /\ res.ok /\ res.body = "user"

\* lines 7-30: the component mounts with isChecking true and its effect starts
\* verifySession, which sends the request
AuthMount ==
    /\ ~authMounted
    /\ authMounts < MaxMounts
    /\ authMounts' = authMounts + 1
    /\ authMounted' = TRUE
    /\ authChecking' = TRUE
    /\ UNCHANGED <<now, queueVars, contextVars, cacheVars, queryVars, hookVars, dashVars,
                   authResponse, authRedirects>>

AuthUnmount ==
    /\ authMounted
    /\ authMounted' = FALSE
    /\ UNCHANGED <<now, queueVars, contextVars, cacheVars, queryVars, hookVars, dashVars,
                   authMounts, authChecking, authResponse, authRedirects>>

\* lines 13-26: the request of mount m settles with res; setIsChecking(false) on
\* the way through the try block (a no-op for a component no longer mounted),
\* router.push in the catch
AuthSettles(m, res) ==
    /\ m \in 1..authMounts
    /\ authResponse[m] = NoResponse
    /\ authResponse' = [authResponse EXCEPT ![m] = res]
    /\ IF Authorized(res)
       THEN /\ authChecking' = IF authMounted /\ m = authMounts THEN FALSE ELSE authChecking
            /\ UNCHANGED authRedirects
       ELSE /\ authRedirects' = authRedirects \cup {m}
            /\ UNCHANGED authChecking
    /\ UNCHANGED <<now, queueVars, contextVars, cacheVars, queryVars, hookVars, dashVars,
                   authMounts, authMounted>>

\* lines 32-42: what the component renders
AuthView ==
    IF ~authMounted THEN "none" ELSE IF authChecking THEN "loading" ELSE "children"

NextAuth ==
    \/ AuthMount
    \/ AuthUnmount
    \/ \E m \in Mounts, res \in AuthResponses : AuthSettles(m, res)

\* ------------------------------------------------------------ ProjectDashboard
\* lines 31-39, the auto-refresh effect for a render with autoRefresh = auto
TimerSet(auto) == IF auto THEN 1 ELSE 0
\* line 37, the cleanup the effect returned when it had set a timer
TimerCleared(auto) == IF auto THEN 1 ELSE 0
\* lines 61-74, the WebSocket effect: it returns no cleanup
SocketsClosed == 0

\* the component mounts for project pr: state as in useState (lines 18-19),
\* both effects run
DashMount(pr) ==
    /\ ~dashMounted
    /\ dashSockets < MaxSockets
    /\ dashMounted' = TRUE
    /\ dashProject' = pr
    /\ dashAutoRefresh' = TRUE
    /\ dashInterval' = DefaultInterval
    /\ dashTimers' = dashTimers + TimerSet(TRUE)
    /\ dashSockets' = dashSockets + 1
    /\ UNCHANGED <<now, queueVars, contextVars, cacheVars, queryVars, hookVars, authVars>>

\* line 125, the checkbox: autoRefresh changes, the cleanup of the last run of
\* the effect is called and the effect runs again
DashSetAutoRefresh(auto) ==
    /\ dashMounted
    /\ auto # dashAutoRefresh
    /\ dashAutoRefresh' = auto
    /\ dashTimers' = dashTimers - TimerCleared(dashAutoRefresh) + TimerSet(auto)
    /\ UNCHANGED <<now, queueVars, contextVars, cacheVars, queryVars, hookVars, authVars,
                   dashMounted, dashProject, dashInterval, dashSockets>>

\* lines 129-138, the select shown while autoRefresh is on
DashSetInterval(i) ==
    /\ dashMounted
    /\ dashAutoRefresh
    /\ i # dashInterval
    /\ dashInterval' = i
    /\ dashTimers' = dashTimers - TimerCleared(dashAutoRefresh) + TimerSet(dashAutoRefresh)
    /\ UNCHANGED <<now, queueVars, contextVars, cacheVars, queryVars, hookVars, authVars,
                   dashMounted, dashProject, dashAutoRefresh, dashSockets>>

\* the projectId prop changes: the WebSocket effect runs again
DashProjectChange(pr) ==
    /\ dashMounted
    /\ pr # dashProject
    /\ dashSockets < MaxSockets
    /\ dashProject' = pr
    /\ dashSockets' = dashSockets - SocketsClosed + 1
    /\ UNCHANGED <<now, queueVars, contextVars, cacheVars, queryVars, hookVars, authVars,
                   dashMounted, dashAutoRefresh, dashInterval, dashTimers>>

\* the component unmounts: React calls the cleanups of the effects
DashUnmount ==
    /\ dashMounted
    /\ dashMounted' = FALSE
    /\ dashTimers' = dashTimers - TimerCleared(dashAutoRefresh)
    /\ dashSockets' = dashSockets - SocketsClosed
    /\ UNCHANGED <<now, queueVars, contextVars, cacheVars, queryVars, hookVars, authVars,
                   dashProject, dashAutoRefresh, dashInterval>>

NextDash ==
    \/ \E pr \in Projects : DashMount(pr)
    \/ \E auto \in BOOLEAN : DashSetAutoRefresh(auto)
    \/ \E i \in RefreshIntervals : DashSetInterval(i)
    \/ \E pr \in Projects : DashProjectChange(pr)
    \/ DashUnmount

\* ------------------------------------------------------- initial conditions

InitQueries ==
    /\ statsCall = NoStats
    /\ failedResult = <<>>

InitUi ==
    /\ hookMounted = FALSE
    /\ hookEnabled = TRUE
    /\ hookActive = 0
    /\ hookTimers = {}
    /\ hookCaptured = [e \in Effects |-> "none"]
    /\ hookPending = {}
    /\ hookStatus = "pending"
    /\ hookServer = "pending"
    /\ hookCallbacks = 0
    /\ authMounts = 0
    /\ authMounted = FALSE
    /\ authChecking = TRUE
    /\ authResponse = [m \in Mounts |-> NoResponse]
    /\ authRedirects = {}
    /\ dashMounted = FALSE
    /\ dashProject = 1
    /\ dashAutoRefresh = TRUE
    /\ dashInterval = DefaultInterval
    /\ dashTimers = 0
    /\ dashSockets = 0

\* --------------------------------------------------------------------- time
\* The clock is observed at multiples of the retry delay: a retried job is not
\* due before the step and is due after it.
TickUpTo(n) ==
    /\ now < n * RetryDelay
    /\ now' = now + RetryDelay
    /\ UNCHANGED <<schemaMax, jobs, generation, pollerVars, retryVars, execs,
                   contextVars, cacheVars, queryVars, uiVars>>

Tick == TickUpTo(MaxTicks)

\* ------------------------------------------------------------ specification
Init ==
    /\ now = 0
    /\ schemaMax \in MaxAttemptsValues
    /\ jobs = <<>>
    /\ generation = [j \in JobIds |-> [status |-> "pending", result |-> "null"]]
    /\ processing = [p \in Pollers |-> FALSE]
    /\ processedJobs = [p \in Pollers |-> {}]
    /\ pc = [p \in Pollers |-> "idle"]
    /\ cur = [p \in Pollers |-> NoJob]
    /\ err = [p \in Pollers |-> NoError]
    /\ retrying = [p \in Pollers |-> 0]
    /\ execs = [j \in JobIds |-> 0]
    /\ cause = [p \in Pollers |-> "none"]
    /\ timers = {}
    /\ instances = {}
    /\ ctxCookie = <<>>
    /\ ctxUser = NoUser
    /\ requestCache = [q \in Prompts |-> NoEntry]
    /\ aiPending = {}
    /\ aiReturn = NoReturn
    /\ InitQueries
    /\ InitUi

Next ==
    \/ \E p \in Pollers : CreateContext(p)
    \/ \E t \in JobTypes, pr \in Priorities : Len(jobs) < MaxRacedJobs /\ AddJob(t, pr)
    \/ \E p \in Pollers : TickSkip(p)
    \/ \E p \in Pollers : FindNone(p)
    \/ \E p \in Pollers : FindProcessed(p)
    \/ \E p \in Pollers : FindJob(p)
    \/ \E p \in Pollers : ClaimJob(p)
    \/ \E p \in Pollers, o \in {"ok", "throw"} : ExecuteJob(p, o) /\ UNCHANGED execs
    \/ \E p \in Pollers : CompleteJob(p)
    \/ \E p \in Pollers : FailJob(p)
    \/ \E p \in Pollers, id \in JobIds : RetryJobThrow(p, id)
    \/ \E p \in Pollers, id \in JobIds : RetryJobFind(p, id)
    \/ \E p \in Pollers : RetryJobWrite(p)
    \/ Tick

Spec == Init /\ [][Next]_vars

\* one AIService instance, its callers and its provider
SpecCache == Init /\ [][NextCache]_vars

\* the clock advances and every provider call settles; callers call when they like
SpecCacheFair ==
    /\ Init
    /\ [][NextCache]_vars
    /\ WF_vars(CacheTick)
    /\ WF_vars(\E k \in aiPending : ProviderFails(k)
                   \/ \E text \in Codes, tokens \in TokenCounts : ProviderReturns(k, text, tokens))

\* ------------------------------------------- one instance, scripted provider
\* The end-to-end scenario of the spec: a generation job is enqueued at time 0 and
\* one QueueService instance polls.  The provider fails the first two handler
\* runs of a job and succeeds from the third on.
ScriptedOutcome(p) ==
    IF cur[p].type \in KnownTypes /\ execs[cur[p].id] < 2 THEN "throw" ELSE "ok"

CountRun(p) ==
    execs' = [execs EXCEPT ![cur[p].id] = IF @ < MaxAttemptsBound THEN @ + 1 ELSE @]

InitSolo ==
    /\ now = 0
    /\ schemaMax \in MaxAttemptsValues
    /\ jobs = <<[type |-> "ai_generation", payload |-> 1, priority |-> DefaultPriority,
                 status |-> "pending", attempts |-> 0, maxAttempts |-> schemaMax,
                 scheduledFor |-> 0, createdAt |-> 0, startedAt |-> NullTime,
                 completedAt |-> NullTime, error |-> NoError]>>
    /\ generation = [j \in JobIds |-> [status |-> "pending", result |-> "null"]]
    /\ processing = [p \in Pollers |-> FALSE]
    /\ processedJobs = [p \in Pollers |-> {}]
    /\ pc = [p \in Pollers |-> "idle"]
    /\ cur = [p \in Pollers |-> NoJob]
    /\ err = [p \in Pollers |-> NoError]
    /\ retrying = [p \in Pollers |-> 0]
    /\ execs = [j \in JobIds |-> 0]
    /\ cause = [p \in Pollers |-> "none"]
    /\ timers = {1}
    /\ instances = {1}
    /\ ctxCookie = <<>>
    /\ ctxUser = NoUser
    /\ requestCache = [q \in Prompts |-> NoEntry]
    /\ aiPending = {}
    /\ aiReturn = NoReturn
    /\ InitQueries
    /\ InitUi

SoloExecute == ExecuteJob(1, ScriptedOutcome(1)) /\ CountRun(1)

\* A cycle of the instance is short against the retry delay: the clock advances
\* between cycles, when the instance has no job to pick up.
SoloTick ==
    /\ pc[1] = "idle"
    /\ ~\E j \in Ids : IsFirst(j) /\ j \notin processedJobs[1]
    /\ TickUpTo(MaxSoloTicks)

NextSolo ==
    \/ \E t \in JobTypes, pr \in Priorities : AddJob(t, pr)
    \/ FindNone(1)
    \/ FindProcessed(1)
    \/ FindJob(1)
    \/ ClaimJob(1)
    \/ SoloExecute
    \/ CompleteJob(1)
    \/ FailJob(1)
    \/ SoloTick

\* setInterval fires every second and every awaited call returns: each step of the
\* instance that stays possible is taken, and the clock advances.
SpecSolo ==
    /\ InitSolo
    /\ [][NextSolo]_vars
    /\ WF_vars(FindJob(1))
    /\ WF_vars(ClaimJob(1))
    /\ WF_vars(SoloExecute)
    /\ WF_vars(CompleteJob(1))
    /\ WF_vars(FailJob(1))
    /\ WF_vars(SoloTick)

\* ------------------------------------ one instance, failing store and handler
\* A prisma call of processNextJob rejects.  findFirst (line 62): the outer catch
\* logs, finally clears the flag, nothing was written.
FindThrow(p) ==
    /\ StartsCycle(p)
    /\ UNCHANGED vars

\* the update of line 82 rejects: processedJobs.add is not reached
ClaimThrow(p) ==
    /\ pc[p] = "claim"
    /\ Release(p)
    /\ UNCHANGED <<now, schemaMax, jobs, generation, processedJobs, retryVars, execs,
                   contextVars, cacheVars, queryVars, uiVars>>

\* the update of line 98 rejects inside the inner try: its catch (line 105) takes
\* the error as it takes a handler's
CompleteThrow(p) ==
    /\ pc[p] = "complete"
    /\ pc' = [pc EXCEPT ![p] = "fail"]
    /\ err' = [err EXCEPT ![p] = "store error"]
    /\ cause' = [cause EXCEPT ![p] = "transient"]
    /\ UNCHANGED <<now, schemaMax, jobs, generation, processing, processedJobs, cur,
                   retryVars, execs, contextVars, cacheVars, queryVars, uiVars>>

\* the update of line 120 or 131 rejects: outer catch, finally
OutcomeThrow(p) ==
    /\ pc[p] = "fail"
    /\ Release(p)
    /\ UNCHANGED <<now, schemaMax, jobs, generation, processedJobs, retryVars, execs,
                   contextVars, cacheVars, queryVars, uiVars>>

\* line 150, "No timeout wrapper - job can run forever": the promise of a handler
\* never settles and processNextJob stays at its await
HandlerHangs(p) ==
    /\ pc[p] = "exec"
    /\ cur[p].type \in KnownTypes
    /\ pc' = [pc EXCEPT ![p] = "hung"]
    /\ UNCHANGED <<now, schemaMax, jobs, generation, processing, processedJobs, cur,
                   err, cause, retryVars, execs, contextVars, cacheVars, queryVars, uiVars>>

\* the process of the instance exits between the claim and the outcome write;
\* nothing of the instance runs again
Crash(p) ==
    /\ pc[p] \in {"exec", "complete", "fail"}
    /\ pc' = [pc EXCEPT ![p] = "crashed"]
    /\ UNCHANGED <<now, schemaMax, jobs, generation, processing, processedJobs, cur,
                   err, cause, retryVars, execs, contextVars, cacheVars, queryVars, uiVars>>

HandlerReturns(p) == \E o \in {"ok", "throw", "invalid"} : ExecuteJob(p, o) /\ UNCHANGED execs

NextFault ==
    \/ CreateContext(1)
    \/ \E t \in JobTypes, pr \in Priorities : AddJob(t, pr)
    \/ TickSkip(1)
    \/ FindNone(1)
    \/ FindProcessed(1)
    \/ FindJob(1)
    \/ ClaimJob(1)
    \/ HandlerReturns(1)
    \/ CompleteJob(1)
    \/ FailJob(1)
    \/ FindThrow(1)
    \/ ClaimThrow(1)
    \/ CompleteThrow(1)
    \/ OutcomeThrow(1)
    \/ HandlerHangs(1)
    \/ Crash(1)
    \/ Tick

\* Every awaited call that can settle does settle and the timer keeps firing;
\* rejections, a handler that hangs and a process exit may happen, none has to.
SpecFault ==
    /\ Init
    /\ [][NextFault]_vars
    /\ WF_vars(CreateContext(1))
    /\ WF_vars(FindJob(1))
    /\ WF_vars(ClaimJob(1) \/ ClaimThrow(1))
    /\ WF_vars(HandlerReturns(1) \/ HandlerHangs(1))
    /\ WF_vars(CompleteJob(1) \/ CompleteThrow(1))
    /\ WF_vars(FailJob(1) \/ OutcomeThrow(1))

\* ------------------------------------------- one instance, retryJob, two jobs
NextRetry ==
    \/ CreateContext(1)
    \/ \E t \in JobTypes, pr \in PriorityArgs : AddJob(t, pr)
    \/ FindNone(1)
    \/ FindProcessed(1)
    \/ FindJob(1)
    \/ ClaimJob(1)
    \/ \E o \in {"ok", "throw"} : ExecuteJob(1, o) /\ UNCHANGED execs
    \/ CompleteJob(1)
    \/ FailJob(1)
    \/ \E id \in JobIds : RetryJobThrow(1, id)
    \/ \E id \in JobIds : RetryJobFind(1, id)
    \/ RetryJobWrite(1)
    \/ GetFailedJobs(1)
    \/ Tick

SpecRetry == Init /\ [][NextRetry]_vars

\* --------------------------------------- one instance, every operation of it
NextOps ==
    \/ CreateContext(1)
    \/ \E t \in JobTypes, pr \in Priorities : Len(jobs) < MaxRacedJobs /\ AddJob(t, pr)
    \/ FindNone(1)
    \/ FindProcessed(1)
    \/ FindJob(1)
    \/ ClaimJob(1)
    \/ \E o \in {"ok", "throw"} : ExecuteJob(1, o) /\ UNCHANGED execs
    \/ CompleteJob(1)
    \/ FailJob(1)
    \/ \E id \in JobIds : RetryJobThrow(1, id)
    \/ \E id \in JobIds : RetryJobFind(1, id)
    \/ RetryJobWrite(1)
    \/ StatsCount(1)
    \/ GetFailedJobs(1)
    \/ Cleanup(1)
    \/ Tick

SpecOps == Init /\ [][NextOps]_vars

\* a component that uses useGenerationPolling, and the server it asks
SpecHook == Init /\ [][NextHook]_vars

\* ------------------------------------------- createContext and its sessions
NextContext ==
    \/ \E p \in Pollers, h \in CookieHeaders : CreateContextFor(p, h)
    \/ Tick

SpecContext == Init /\ [][NextContext]_vars

\* -------------------------------------------------- the client's components
SpecAuth == Init /\ [][NextAuth]_vars

SpecDash == Init /\ [][NextDash]_vars

\* ------------------------------------------------- two instances, one job
PairPollers == 1..NumPairPollers

NextPair ==
    \/ \E p \in PairPollers : CreateContext(p)
    \/ \E t \in JobTypes, pr \in Priorities : Len(jobs) < MaxRacedJobs /\ AddJob(t, pr)
    \/ \E p \in PairPollers : FindNone(p)
    \/ \E p \in PairPollers : FindProcessed(p)
    \/ \E p \in PairPollers : FindJob(p)
    \/ \E p \in PairPollers : ClaimJob(p)
    \/ \E p \in PairPollers, o \in {"ok", "throw"} : ExecuteJob(p, o) /\ UNCHANGED execs
    \/ \E p \in PairPollers : CompleteJob(p)
    \/ \E p \in PairPollers : FailJob(p)
    \/ Tick

SpecPair == Init /\ [][NextPair]_vars

\* ------------------------------------------------------------------- claims
Held == {"exec", "complete", "fail"}
SelectStep(p) == pc[p] = "idle" /\ pc'[p] = "claim"
ClaimStep(p) == pc[p] = "claim" /\ pc'[p] = "exec"
FailStep(p) == pc[p] = "fail" /\ pc'[p] = "idle"
RetryWriteStep(p) == retrying[p] # 0 /\ retrying'[p] = 0
NoRetryWrite == \A p \in Pollers : ~RetryWriteStep(p)

\* C1: a job is claimed by exactly one poller: no two instances are past the
\* claim (executing the job or writing its outcome) with the same job.
C1_ClaimedByOnePoller ==
    \A p, q \in Pollers :
        (p # q /\ pc[p] \in Held /\ pc[q] \in Held) => cur[p].id # cur[q].id

\* C2: the job an instance selects is pending, due and first by priority, then
\* createdAt, among the eligible jobs; and a job whose scheduledFor is still in
\* the future is never claimed: every write that moves a job to processing finds
\* its scheduledFor <= now.
C2_NeverClaimsFutureJob ==
    [][\A p \in Pollers :
        /\ SelectStep(p) => IsFirst(cur'[p].id)
        /\ ClaimStep(p) => jobs[cur[p].id].scheduledFor <= now]_vars

\* C3: in every reachable state every job has 0 <= attempts <= maxAttempts.
C3_AttemptsWithinBounds ==
    \A j \in Ids : 0 <= jobs[j].attempts /\ jobs[j].attempts <= jobs[j].maxAttempts

\* C3 witness: a job that was retried and then failed on its last attempt, its
\* attempts at the bound.
C3_Witness ==
    \E j \in Ids : /\ jobs[j].status = "failed"
                   /\ jobs[j].maxAttempts >= 2
                   /\ jobs[j].attempts = jobs[j].maxAttempts

\* C4: attempts only increases.  Stated for the writes of processNextJob (claim,
\* completion, retry scheduling, failure): no such step stores an attempts value
\* lower than the job had.  retryJob's reset to 0 is left out of the statement.
C4_PollerWritesNeverLowerAttempts ==
    [][NoRetryWrite => \A j \in Ids : jobs'[j].attempts >= jobs[j].attempts]_vars

\* C5: when the handler of a claimed job throws and attempts+1 < maxAttempts (for
\* the job object the instance holds and for the stored job alike), the write
\* leaves the job pending, its attempts one higher than before the write, its
\* error set and its scheduledFor later than the time of the write.
C5_RetryWriteIncrementsAttempts ==
    [][\A p \in Pollers :
        (/\ FailStep(p)
         /\ cur[p].attempts + 1 < cur[p].maxAttempts
         /\ jobs[cur[p].id].attempts + 1 < jobs[cur[p].id].maxAttempts)
        => /\ jobs'[cur[p].id].status = "pending"
           /\ jobs'[cur[p].id].attempts = jobs[cur[p].id].attempts + 1
           /\ jobs'[cur[p].id].error # NoError
           /\ jobs'[cur[p].id].scheduledFor > now]_vars

\* C6: a failure on the final allowed attempt writes failed, with error and
\* completedAt set, and no write of processNextJob moves a failed job back to
\* pending.
C6_FailedNeverBackToPending ==
    [][/\ \A p \in Pollers :
            (FailStep(p) /\ cur[p].attempts + 1 >= cur[p].maxAttempts)
            => /\ jobs'[cur[p].id].status = "failed"
               /\ jobs'[cur[p].id].error # NoError
               /\ jobs'[cur[p].id].completedAt # NullTime
       /\ NoRetryWrite =>
            \A j \in Ids : jobs[j].status = "failed" => jobs'[j].status # "pending"]_vars

\* C7: a job of an unrecognised type never ends completed.
C7_UnknownTypeNeverCompleted ==
    \A j \in Ids : jobs[j].type \notin KnownTypes => jobs[j].status # "completed"

\* C8: one instance, a generation job with maxAttempts = 3 and no other job in the
\* store, the provider failing twice and then succeeding: the job eventually is
\* completed with attempts = 2 and its generation record completed with a result.
C8_EventuallyCompleted ==
    <>(\/ Len(jobs) > 1
       \/ jobs[1].maxAttempts # 3
       \/ /\ jobs[1].status = "completed"
          /\ jobs[1].attempts = 2
          /\ generation[1].status = "completed"
          /\ generation[1].result # "null")

\* C9: a completed job never changes status, and a failed job changes status
\* only in the write of retryJob.
C9_TerminalStatesStay ==
    [][\A j \in Ids :
        /\ jobs[j].status = "completed" => jobs'[j].status = "completed"
        /\ (jobs[j].status = "failed" /\ jobs'[j].status # "failed") => ~NoRetryWrite]_vars

\* C10: the write of retryJob never lands on a job that is pending, processing or
\* completed at that moment.
C10_RetryJobWritesOnlyFailed ==
    [][\A p \in Pollers : RetryWriteStep(p) => jobs[retrying[p]].status = "failed"]_vars

\* C11: retryJob on a job that is failed when its update lands sets status pending,
\* attempts 0, error, startedAt and completedAt null and scheduledFor to the current
\* time, keeps the job's other fields, changes no other job, and leaves the job
\* pending, due and absent from the processedJobs of the instance that served the
\* call, so that this instance can select and claim it again.
C11_RetryJobResetsFailedJob ==
    [][\A p \in Pollers :
        (RetryWriteStep(p) /\ jobs[retrying[p]].status = "failed")
        => /\ jobs'[retrying[p]].status = "pending"
           /\ jobs'[retrying[p]].attempts = 0
           /\ jobs'[retrying[p]].error = NoError
           /\ jobs'[retrying[p]].startedAt = NullTime
           /\ jobs'[retrying[p]].completedAt = NullTime
           /\ jobs'[retrying[p]].scheduledFor = now
           /\ jobs'[retrying[p]].scheduledFor <= now'
           /\ jobs'[retrying[p]].type = jobs[retrying[p]].type
           /\ jobs'[retrying[p]].priority = jobs[retrying[p]].priority
           /\ jobs'[retrying[p]].maxAttempts = jobs[retrying[p]].maxAttempts
           /\ jobs'[retrying[p]].createdAt = jobs[retrying[p]].createdAt
           /\ \A k \in Ids : k # retrying[p] => jobs'[k] = jobs[k]
           /\ retrying[p] \notin processedJobs'[p]]_vars

\* C11 witness: beside another job, a job that failed and was reset by retryJob at
\* a later time: pending with attempts 0, scheduled after its creation, and not in
\* the processedJobs of instance 1.
C11_Witness ==
    /\ Len(jobs) = 2
    /\ \E j \in Ids : /\ jobs[j].status = "pending"
                       /\ jobs[j].attempts = 0
                       /\ jobs[j].scheduledFor > jobs[j].createdAt
                       /\ jobs[j].completedAt = NullTime
                       /\ j \notin processedJobs[1]

\* C12: when the handler fails for a permanent reason (a payload that cannot be
\* worked on), the outcome write of that attempt moves the job to failed, whatever
\* number of attempts remains; the retry path is taken for transient errors only.
C12_PermanentErrorFailsAtOnce ==
    [][\A p \in Pollers :
        (FailStep(p) /\ cause[p] = "permanent" /\ jobs'[cur[p].id] # jobs[cur[p].id])
        => jobs'[cur[p].id].status = "failed"]_vars

StatusOf(j) == IF j \in Ids THEN jobs[j].status ELSE "none"

\* C13: a job that is processing while its handler never returns eventually
\* leaves processing (the execution is cut at a deadline and the breach written
\* as a failure of the attempt).
C13_HungHandlerLeavesProcessing ==
    \A j \in JobIds :
        (StatusOf(j) = "processing" /\ \E p \in Pollers : pc[p] = "hung" /\ cur[p].id = j)
        ~> (StatusOf(j) # "processing")

\* no running processNextJob holds the job: the instance that claimed it exited,
\* or its outcome write was rejected and the cycle ended
Orphaned(j) ==
    /\ StatusOf(j) = "processing"
    /\ \A p \in Pollers : cur[p].id = j => pc[p] = "crashed"

\* C14: a job left in processing by an instance that stopped between the claim
\* and the outcome write, or whose outcome write was rejected, eventually leaves
\* processing.
C14_OrphanedJobRecovered ==
    \A j \in JobIds : Orphaned(j) ~> (StatusOf(j) # "processing")

\* C15: the ticks of one instance never overlap: a cycle is started (a job
\* selected, the flag raised) only by an instance that has no cycle in flight, an
\* instance never holds more than one job, and its flag is up exactly while its
\* cycle is in flight.
C15_TicksNeverOverlap ==
    [][\A p \in Pollers :
        /\ processing[p] <=> pc[p] # "idle"
        /\ (pc'[p] = "claim" /\ <<pc[p], cur[p]>> # <<pc'[p], cur'[p]>>)
           => (pc[p] = "idle" /\ ~processing[p] /\ cur[p] = NoJob)]_vars

\* C15 witness: an instance is executing a job, its flag up: a tick that fires now
\* returns at the guard.
C15_Witness ==
    \E p \in Pollers : p \in timers /\ processing[p] /\ pc[p] = "exec" /\ ENABLED TickSkip(p)

\* C16: a process has at most one live polling timer, whatever number of requests
\* createContext has served.
C16_AtMostOneTimer == Cardinality(timers) <= 1

\* C17: a rejected store call never leaves processNextJob with the flag up.  A
\* rejected claim write ends the cycle with nothing written and the job not in
\* processedJobs; a rejected completion write is taken by the inner catch, the
\* cycle going on to the retry or failure write; a rejected retry or failure write
\* ends the cycle.  Every cycle that ends leaves the instance idle with the flag
\* cleared and its timer live, so that its next tick passes the guard.
C17_StoreErrorsEndTheCycle ==
    [][\A p \in Pollers :
        /\ (pc[p] = "claim" /\ pc'[p] = "idle")
           => (jobs' = jobs /\ cur[p].id \notin processedJobs'[p])
        /\ (pc[p] = "complete" /\ pc'[p] = "fail")
           => (jobs' = jobs /\ err'[p] # NoError)
        /\ (pc[p] # "idle" /\ pc'[p] = "idle")
           => (~processing'[p] /\ cur'[p] = NoJob /\ p \in timers')
        /\ pc'[p] \in {"idle", "claim", "exec", "complete", "fail", "hung", "crashed"}]_vars

\* C17 witness: the retry or failure write of instance 1 was rejected: the job it
\* claimed is still processing while the instance is idle with the flag cleared.
C17_Witness ==
    /\ pc[1] = "idle"
    /\ ~processing[1]
    /\ \E j \in Ids : jobs[j].status = "processing" /\ j \in processedJobs[1]

\* a generateComponent call returns without a provider call
CachedReturnStep == aiPending' = aiPending /\ aiReturn' # aiReturn /\ aiReturn'.kind = "value"
\* a generateComponent call returns the answer of the provider
ProviderReturnStep == aiPending' # aiPending /\ aiPending' \subseteq aiPending /\ aiReturn'.kind = "value"
Age(entry) == now - entry.timestamp

\* C18: a call for a prompt that has no entry goes to the provider, and the call
\* that returns the provider's answer reports nonzero tokensUsed and stores the
\* answer; a call for a prompt whose entry is younger than the limit makes no
\* provider call and returns tokensUsed 0 with the stored code.  An entry younger
\* than the limit is removed by clearCache only.
C18_MissCallsProviderHitDoesNot ==
    [][/\ \A q \in Prompts :
            (requestCache[q] # NoEntry /\ requestCache'[q] = NoEntry)
            => (Age(requestCache[q]) > CacheTTL \/ \A r \in Prompts : requestCache'[r] = NoEntry)
       /\ CachedReturnStep =>
            /\ requestCache[aiReturn'.prompt] # NoEntry
            /\ aiReturn'.tokensUsed = 0
            /\ aiReturn'.code = requestCache[aiReturn'.prompt].result
            /\ requestCache' = requestCache
       /\ \A k \in aiPending' \ aiPending :
            \/ requestCache[k.prompt] = NoEntry
            \/ Age(requestCache[k.prompt]) >= CacheTTL
       /\ ProviderReturnStep =>
            /\ aiReturn'.tokensUsed > 0
            /\ requestCache'[aiReturn'.prompt].result = aiReturn'.code]_vars

\* C18 witness: the last call returned, later than the insertion and within the
\* limit, the stored code with tokensUsed 0.
C18_Witness ==
    /\ aiReturn.kind = "value"
    /\ aiReturn.tokensUsed = 0
    /\ requestCache[aiReturn.prompt] # NoEntry
    /\ requestCache[aiReturn.prompt].result = aiReturn.code
    /\ Age(requestCache[aiReturn.prompt]) > 0
    /\ Age(requestCache[aiReturn.prompt]) < CacheTTL

\* C19: no call returns an entry whose age is at or beyond the limit: a call
\* that returns from the cache finds an entry younger than the limit, and the
\* call that returns the provider's answer leaves the prompt's entry with that
\* answer and the current time, reporting nonzero tokensUsed.
C19_NoStaleEntryReturned ==
    [][/\ CachedReturnStep => Age(requestCache[aiReturn'.prompt]) < CacheTTL
       /\ ProviderReturnStep =>
            /\ requestCache'[aiReturn'.prompt] =
                    [result |-> aiReturn'.code, timestamp |-> now]
            /\ aiReturn'.tokensUsed > 0]_vars

\* C19 witness: a call is waiting for the provider for a prompt whose entry has
\* reached the limit exactly.
C19_Witness ==
    \E k \in aiPending : /\ requestCache[k.prompt] # NoEntry
                          /\ Age(requestCache[k.prompt]) = CacheTTL

\* C20: right after an insert the cache holds no expired entry: every entry that
\* remains is one the cache check accepts.
C20_NoExpiredEntryAfterInsert ==
    [][ProviderReturnStep =>
        \A q \in Prompts :
            requestCache'[q] # NoEntry => Age(requestCache'[q]) < CacheTTL]_vars

\* C21: the generation record of a generation job is failed only when the job is
\* failed (looked at between cycles, when no instance holds the job), and a
\* completed job has its record completed with the result set.
C21_RecordFailedOnlyWithJob ==
    \A j \in Ids :
        jobs[j].type = "ai_generation" =>
            /\ (/\ generation[jobs[j].payload].status = "failed"
                /\ \A p \in Pollers : cur[p].id # j)
               => jobs[j].status = "failed"
            /\ jobs[j].status = "completed"
               => /\ generation[jobs[j].payload].status = "completed"
                  /\ generation[jobs[j].payload].result # "null"

\* C22: addJob(type, payload, priority) appends exactly one job, pending, with
\* attempts 0, scheduledFor the time of the call and the priority passed (0 when
\* none is passed), and leaves every job already stored as it was.
C22_AddJobAddsOnePendingJob ==
    [][\A t \in JobTypes, a \in PriorityArgs :
        AddJob(t, a)
        => /\ Len(jobs') = Len(jobs) + 1
           /\ jobs'[Len(jobs')].type = t
           /\ jobs'[Len(jobs')].status = "pending"
           /\ jobs'[Len(jobs')].attempts = 0
           /\ jobs'[Len(jobs')].scheduledFor = now
           /\ jobs'[Len(jobs')].priority = IF a = Undefined THEN 0 ELSE a
           /\ \A k \in Ids : jobs'[k] = jobs[k]]_vars

\* C22 witness: a second job was added at a later time than the first, which has
\* been worked on in between: the new job is pending, not yet attempted and due.
C22_Witness ==
    /\ Len(jobs) = 2
    /\ jobs[1].status # "pending"
    /\ jobs[2].createdAt > jobs[1].createdAt
    /\ jobs[2].status = "pending"
    /\ jobs[2].attempts = 0
    /\ jobs[2].scheduledFor = now

\* C23: the retry delay grows with the attempt count: a retry write that stores
\* attempts n > 1 schedules the job later, counted from the write, than the
\* delay used after attempt n - 1.
C23_RetryDelayGrows ==
    [][\A p \in Pollers :
        (FailStep(p) /\ jobs'[cur[p].id].status = "pending" /\ jobs'[cur[p].id].attempts > 1)
        => jobs'[cur[p].id].scheduledFor - now > BackoffDelay(jobs'[cur[p].id].attempts - 1)]_vars

\* status, attempts and error of a row
Outcome(row) == <<row.status, row.attempts, row.error>>

\* C24: each outcome write is idempotent on status, attempts and error: for every
\* instance about to write an outcome, the write it is about to make (completed;
\* retry or failed with the attempts and error it holds), applied twice to the
\* stored row, leaves what applying it once leaves.
C24_OutcomeWritesIdempotent ==
    \A p \in Pollers :
        /\ pc[p] = "complete" =>
            Outcome(ApplyCompleted(ApplyCompleted(jobs[cur[p].id])))
                = Outcome(ApplyCompleted(jobs[cur[p].id]))
        /\ pc[p] = "fail" =>
            /\ Outcome(ApplyRetry(ApplyRetry(jobs[cur[p].id], cur[p], err[p]), cur[p], err[p]))
                = Outcome(ApplyRetry(jobs[cur[p].id], cur[p], err[p]))
            /\ Outcome(ApplyFailed(ApplyFailed(jobs[cur[p].id], cur[p], err[p]), cur[p], err[p]))
                = Outcome(ApplyFailed(jobs[cur[p].id], cur[p], err[p]))

\* C24 witness: an instance is about to make the retry write that another
\* instance, holding the same job object and error, has just made.
C24_Witness ==
    \E p \in Pollers :
        /\ pc[p] = "fail"
        /\ ShouldRetry(cur[p])
        /\ jobs[cur[p].id] = ApplyRetry(jobs[cur[p].id], cur[p], err[p])

\* C25: no operation of QueueService removes a job or changes the type or the
\* payload of a job: the set of job ids only grows.
C25_JobsNeverRemoved ==
    [][/\ Len(jobs') >= Len(jobs)
       /\ \A j \in Ids : /\ jobs'[j].type = jobs[j].type
                          /\ jobs'[j].payload = jobs[j].payload]_vars

\* C25 witness: the job was run to failed, listed by getFailedJobs, reset by
\* retryJob at a later time and counted by a complete getQueueStats call, and
\* cleanup has stopped the timer of the instance.
C25_Witness ==
    /\ Len(jobs) = 1
    /\ jobs[1].status = "pending"
    /\ jobs[1].attempts = 0
    /\ jobs[1].scheduledFor > jobs[1].createdAt
    /\ failedResult = <<1>>
    /\ statsCall.stage = 4
    /\ instances = {1}
    /\ ctxCookie = <<>>
    /\ ctxUser = NoUser
    /\ timers = {}

\* C26: the four counts getQueueStats returns are those of one state of the
\* store: when no job was added during the call they sum to the number of jobs,
\* whatever the pollers write meanwhile; and no count query changes a job.
C26_StatsCountsAreConsistent ==
    [][/\ statsCall' # statsCall => jobs' = jobs
       /\ (statsCall.stage = 3 /\ statsCall'.stage = 4
           /\ Len(jobs) = statsCall.jobsAtStart)
          => statsCall'.counts[1] + statsCall'.counts[2] + statsCall'.counts[3]
                + statsCall'.counts[4] = Len(jobs)]_vars

\* C27: getFailedJobs returns exactly the failed jobs, each once, most recently
\* failed first, and changes no job.
C27_FailedJobsListedByRecency ==
    [][failedResult' # failedResult =>
        /\ Len(failedResult') = Cardinality(FailedIds)
        /\ \A j \in Ids :
              jobs[j].status = "failed" <=> \E i \in DOMAIN failedResult' : failedResult'[i] = j
        /\ \A i, k \in DOMAIN failedResult' :
              i < k => jobs[failedResult'[i]].completedAt >= jobs[failedResult'[k]].completedAt
        /\ jobs' = jobs]_vars

\* C27 witness: two jobs failed at different times and the last call listed the
\* later failure first.
C27_Witness ==
    /\ Len(failedResult) = 2
    /\ jobs[failedResult[1]].status = "failed"
    /\ jobs[failedResult[2]].status = "failed"
    /\ jobs[failedResult[1]].completedAt > jobs[failedResult[2]].completedAt

\* an entry the cache check no longer accepts
Stale(q) == requestCache[q] # NoEntry /\ Age(requestCache[q]) >= CacheTTL
CacheSize == Cardinality({q \in Prompts : requestCache[q] # NoEntry})

\* C28: the cache is bounded: every entry that has expired is eventually removed,
\* whether or not another insert follows, or the number of entries stays below
\* the number of distinct prompts that were generated.
C28_CacheBounded ==
    \/ \A q \in Prompts : Stale(q) ~> (requestCache[q] = NoEntry)
    \/ [](CacheSize < MaxPrompts)

\* C29: with one instance, every job that is pending and due and that the
\* instance has not claimed before is eventually claimed by it, also when a job
\* that went back to pending after a failed attempt is due before it.
C29_DueJobsEventuallyClaimed ==
    \A j \in JobIds :
        (j \in Ids /\ StatusOf(j) = "pending" /\ j \notin processedJobs[1])
        ~> (j \in processedJobs[1])

\* C30: once the cleanup of a run of the effect was called, the timer of that run
\* is cleared and the run issues no further status check: the only live timer is
\* that of the run whose cleanup is still to come, and only that run starts a
\* query.
C30_CleanupClearsTimer ==
    [][/\ hookTimers' \subseteq {hookActive'}
       /\ \A e \in Effects :
            (e \in hookPending' /\ e \notin hookPending) => e = hookActive']_vars


\* line 109: the isPolling flag the hook returns
IsPolling == hookEnabled /\ hookStatus \notin {"completed", "failed"}

\* C31: once the hook has observed the status completed or failed, no further
\* status check is issued, onComplete / onError has been called at most once,
\* and isPolling is false.
C31_NoCheckAfterTerminalStatus ==
    [][(hookStatus \in {"completed", "failed"}) =>
          (/\ hookPending' \subseteq hookPending
           /\ hookCallbacks' <= 1
           /\ ~IsPolling')]_vars


\* C34: a job whose handler returned successfully is never counted as a failed
\* attempt: when the completion write throws after executeJob succeeded, the
\* job is written back neither to pending with attempts incremented nor to
\* failed.
C34_SucceededJobNotCountedFailed ==
    [][\A p \in Pollers :
        (pc[p] = "fail" /\ err[p] = "store error")
           => LET id == cur[p].id
              IN  \/ jobs'[id] = jobs[id]
                  \/ /\ jobs'[id].status \notin {"pending", "failed"}
                     /\ jobs'[id].attempts = jobs[id].attempts]_vars


\* C35: in every reachable state a job's completedAt is non-null exactly when
\* its status is completed or failed, and a job in processing has a non-null
\* startedAt.
C35_TimestampsMatchStatus ==
    \A j \in Ids :
        /\ (jobs[j].completedAt # NullTime) <=> (jobs[j].status \in {"completed", "failed"})
        /\ jobs[j].status = "processing" => jobs[j].startedAt # NullTime


\* the characters of the auth_token cookie a request carries, <<>> without one
CarriedToken(header) ==
    IF \E i \in DOMAIN header : header[i].name = "auth_token"
    THEN header[CHOOSE i \in DOMAIN header : header[i].name = "auth_token"].value
    ELSE <<>>

\* C33: createContext returns a non-null user only if the request carries an
\* auth_token cookie whose value is the token of a stored session that expires
\* strictly later than now, and then the user is that session's user; with no
\* cookie, an unknown token or an expired session the user is null.
C33_UserOnlyForValidSession ==
    [][instances' # instances =>
        LET valid == {s \in Sessions : s.token = CarriedToken(ctxCookie') /\ s.expiresAt > now}
        IN  /\ ctxUser' # NoUser => \E s \in valid : ctxUser' = s.user
            /\ valid = {} => ctxUser' = NoUser]_vars


\* the request of the mounted component returned an ok response with a user
Verified ==
    LET res == authResponse[authMounts]
    IN  res.kind = "response" /\ res.ok /\ res.body = "user"

\* C32: AuthWrapper renders its children only after its /api/auth/me request
\* returned an ok response containing a user; while the check is pending it
\* renders the loading view; when the request fails, is not ok or has no user
\* it redirects to /auth/login and never renders the children.
C32_ChildrenOnlyAfterVerifiedSession ==
    authMounted =>
        /\ AuthView = "children" => Verified
        /\ authResponse[authMounts] = NoResponse => AuthView = "loading"
        /\ (authResponse[authMounts] # NoResponse /\ ~Verified)
              => (authMounts \in authRedirects /\ AuthView = "loading")

\* C32 witness: the second mount renders the children after its request was
\* answered with a user, the first mount having been redirected.
C32_Witness ==
    /\ authMounts = 2
    /\ AuthView = "children"
    /\ Verified
    /\ authRedirects = {1}


\* C36: a mounted ProjectDashboard holds at most one open WebSocket and at most
\* one auto-refresh timer: the previous WebSocket is closed when projectId
\* changes or the component unmounts, and the previous timer is cleared when
\* autoRefresh is switched off or refreshInterval changes.
C36_OneSocketOneTimer ==
    /\ dashSockets <= (IF dashMounted THEN 1 ELSE 0)
    /\ dashTimers <= (IF dashMounted /\ dashAutoRefresh THEN 1 ELSE 0)

====
